---- MODULE Spec2Model ----
(***************************************************************************)
(* Identity layer of the posting service: registration, login, stateless   *)
(* session tokens and the ownership gate on post mutation.                 *)
(*                                                                         *)
(* Every HTTP request is a slot of `req`.  A handler is cut into actions   *)
(* at its `await` points: between two awaits JavaScript runs atomically,   *)
(* and the database executes each query atomically.  Database failures     *)
(* (the catch branches that call ctx.throw(500, e)) are not modelled.      *)
(* The collections start as a running deployment finds them: two users,    *)
(* each owning one post.                                                   *)
(***************************************************************************)
EXTENDS Integers, Sequences, FiniteSets, TLC

VARIABLES users, posts, issued, now, req

vars == <<users, posts, issued, now, req>>

\* ---------------------------------------------------------------- bounds
NReq == 3
NPostReq == 2
MaxTicks == 2
MaxTokens == 2

Req == 1..NReq

\* The slots the posts routes use.
PostReq == 1..NPostReq

\* The clock advances in steps of four days, in seconds.
TickStep == 4 * 24 * 60 * 60

\* ------------------------------------------------------------ identifiers
\* A mongoose ObjectId is an object; its toString() is the hex string.
ObjectId(n) == <<"ObjectId", n>>

toString(x) == IF x[1] = "ObjectId" THEN <<"String", x[2]>> ELSE x

\* ------------------------------------------------------------- passwords
bcryptCost == 10

Salts == {"saltA", "saltB"}

bcrypt_hash(password, salt) ==
    [cost |-> bcryptCost, salt |-> salt, digest |-> <<salt, password>>]

bcrypt_compare(password, hash) == bcrypt_hash(password, hash.salt) = hash

\* UserSchema.methods.setPassword: this.hashedPassword = hash
setPassword(doc, password, salt) ==
    [_id |-> doc._id, username |-> doc.username,
     hashedPassword |-> bcrypt_hash(password, salt)]

checkPassword(doc, password) == bcrypt_compare(password, doc.hashedPassword)

\* UserSchema.statics.findByUsername: findOne returns the first match in
\* natural (insertion) order, or nothing.
findByUsername(username) ==
    LET m == {u \in users : u.username = username}
    IN  {u \in m : \A v \in m : u._id[2] <= v._id[2]}

serialize_leaky(doc) == doc

\* UserSchema.methods.serialize: toJSON() without the hashedPassword field.
serialize(doc) == [f \in DOMAIN doc \ {"hashedPassword"} |-> doc[f]]

\* ---------------------------------------------------------------- tokens
JWT_SECRET == "process.env.JWT_SECRET"

expiresIn == 7 * 24 * 60 * 60

sign(payload, secret) == <<"HS256", secret, payload>>

generateToken_1d(doc, t) ==
    LET payload == [_id |-> toString(doc._id), username |-> doc.username,
                    iat |-> t, exp |-> t + 24 * 60 * 60]
    IN  [payload |-> payload, sig |-> sign(payload, JWT_SECRET)]

\* UserSchema.methods.generateToken: jwt.sign({_id: this.id, username},
\* secret, {expiresIn: '7d'}); jsonwebtoken adds iat and exp in seconds.
generateToken(doc, t) ==
    LET payload == [_id |-> toString(doc._id), username |-> doc.username,
                    iat |-> t, exp |-> t + expiresIn]
    IN  [payload |-> payload, sig |-> sign(payload, JWT_SECRET)]

cookieMaxAge == 1000 * 60 * 60 * 24 * 7

\* ctx.cookies.set('access_token', token, {maxAge, httpOnly: true})
setCookie(token) ==
    [name |-> "access_token", value |-> {token},
     maxAge |-> cookieMaxAge, httpOnly |-> TRUE]

\* ctx.cookies.set('access_token') with no value deletes the cookie.
clearCookie == [name |-> "access_token", value |-> {},
                maxAge |-> 0, httpOnly |-> TRUE]

\* The access_token a request may carry: none, or any token issued so far.
Presented == {{}} \cup {{t} : t \in issued}

\* Session resolution: no token, a bad signature or an expired token leave
\* the identity anonymous; a valid token yields {_id, username}.
jwtMiddleware(token, t) ==
    {[_id |-> k.payload._id, username |-> k.payload.username] :
        k \in {k \in token : /\ k.sig = sign(k.payload, JWT_SECRET)
                             /\ t < k.payload.exp}}

\* ------------------------------------------------------------- requests
Idle == [h |-> "none", pc |-> "idle", body |-> {}, user |-> {}, post |-> {},
         id |-> {}, doc |-> {}, token |-> {}, status |-> 404, resp |-> {},
         cookie |-> {}]

\* Requests are taken in slot order: slots are interchangeable.
CanStart(r) ==
    /\ req[r].pc = "idle"
    /\ r > 1 => req[r - 1].pc # "idle"

InternalServerError == [message |-> "Internal Server Error"]

\* Joi's ValidationError, as serialised into a 400 response.
ValidationError(body) == [name |-> "ValidationError", _original |-> body]

\* ------------------------------------------------------------ the store
alice == [_id |-> ObjectId(1), username |-> "alice",
          hashedPassword |-> bcrypt_hash("pw123456", "saltA")]

bob == [_id |-> ObjectId(2), username |-> "bob",
        hashedPassword |-> bcrypt_hash("hunter22", "saltB")]

PostIds == {1, 2}

ownerRef(u) == [_id |-> u._id, username |-> u.username]

PostsAtStart ==
    [p \in PostIds |->
        {[_id |-> ObjectId(100 + p), title |-> "title", body |-> "body",
          tags |-> <<"tag">>,
          user |-> ownerRef(IF p = 1 THEN alice ELSE bob)]}]

\* new User(...) draws a fresh ObjectId.
FreshId ==
    LET used == {u._id[2] : u \in users}
                \cup {d._id[2] : d \in UNION {req[r].doc : r \in Req}}
    IN  ObjectId(CHOOSE n \in 1..(Cardinality(used) + 1) : n \notin used)

Init ==
    /\ users = {alice, bob}
    /\ posts = PostsAtStart
    /\ issued = {}
    /\ now = 0
    /\ req = [r \in Req |-> Idle]

\* ------------------------------------------------- auth.ctrl.js register
\* Line 13 reads `schema` inside its own initialiser: a ReferenceError is
\* thrown before the body is validated; Koa answers 500.
register(r) ==
    /\ CanStart(r)
    /\ \E b \in {[username |-> "carol", password |-> "pw123456"]} :
         req' = [req EXCEPT ![r] =
                   [Idle EXCEPT !.h = "register", !.pc = "done",
                                !.body = {b}, !.status = 500,
                                !.resp = {InternalServerError}]]
    /\ UNCHANGED <<users, posts, issued, now>>

\* --------------------------------------------------- part_000 register
IsAlphanum(s) == s \notin {"al ice!"}

RegisterSchemaOk(b) ==
    /\ DOMAIN b = {"username", "password"}
    /\ IsAlphanum(b.username)
    /\ Len(b.username) >= 3
    /\ Len(b.username) <= 20
    /\ b.password # ""

RegisterBodies ==
    {[username |-> u, password |-> "pw123456"] : u \in {"carol", "alice", "al"}}
    \cup {[username |-> "carol"]}

\* Lines 11-34: validate, then findByUsername; 409 when a record exists,
\* else build the new document.
register_part000_findByUsername(r) ==
    /\ CanStart(r)
    /\ \E b \in RegisterBodies :
         LET start == [Idle EXCEPT !.h = "register_part000", !.body = {b}]
         IN  IF ~RegisterSchemaOk(b)
             THEN req' = [req EXCEPT ![r] =
                            [start EXCEPT !.pc = "done", !.status = 400,
                                          !.resp = {ValidationError(b)}]]
             ELSE IF findByUsername(b.username) # {}
             THEN req' = [req EXCEPT ![r] =
                            [start EXCEPT !.pc = "done", !.status = 409]]
             ELSE req' = [req EXCEPT ![r] =
                            [start EXCEPT !.pc = "setPassword",
                               !.doc = {[_id |-> FreshId,
                                         username |-> b.username]}]]
    /\ UNCHANGED <<users, posts, issued, now>>

\* Line 35: await user.setPassword(password)
register_part000_setPassword(r) ==
    /\ req[r].h = "register_part000"
    /\ req[r].pc = "setPassword"
    /\ \E salt \in Salts : \E d \in req[r].doc : \E b \in req[r].body :
         req' = [req EXCEPT ![r].pc = "save",
                            ![r].doc = {setPassword(d, b.password, salt)}]
    /\ UNCHANGED <<users, posts, issued, now>>

\* Lines 36-38: await user.save(); ctx.body = user.serialize()
register_part000_save(r) ==
    /\ req[r].h = "register_part000"
    /\ req[r].pc = "save"
    /\ \E d \in req[r].doc :
         /\ users' = users \cup {d}
         /\ req' = [req EXCEPT ![r].pc = "done", ![r].status = 200,
                               ![r].resp = {serialize(d)}]
    /\ UNCHANGED <<posts, issued, now>>

\* ------------------------------------------------------------- login
LoginBodies ==
    {[username |-> "alice", password |-> "pw123456"],
     [username |-> "alice", password |-> "wrong"],
     [username |-> "nobody", password |-> "pw123456"],
     [username |-> "", password |-> "pw123456"]}

\* Tokens are capped: a login starts only while one more may be issued.
TokenBudget ==
    Cardinality(issued)
      + Cardinality({r \in Req : req[r].h = "login" /\ req[r].pc # "done"})
      < MaxTokens

login_findByUsername_404(r) ==
    /\ CanStart(r)
    /\ TokenBudget
    /\ \E b \in LoginBodies :
         LET start == [Idle EXCEPT !.h = "login", !.body = {b}]
         IN  IF b.username = "" \/ b.password = ""
             THEN req' = [req EXCEPT ![r] =
                            [start EXCEPT !.pc = "done", !.status = 401]]
             ELSE IF findByUsername(b.username) = {}
             THEN req' = [req EXCEPT ![r] =
                            [start EXCEPT !.pc = "done", !.status = 404]]
             ELSE req' = [req EXCEPT ![r] =
                            [start EXCEPT !.pc = "checkPassword",
                               !.doc = findByUsername(b.username)]]
    /\ UNCHANGED <<users, posts, issued, now>>

\* Lines 58-74: 401 on a missing field, then findByUsername; 401 when no
\* record exists.
login_findByUsername(r) ==
    /\ CanStart(r)
    /\ TokenBudget
    /\ \E b \in LoginBodies :
         LET start == [Idle EXCEPT !.h = "login", !.body = {b}]
         IN  IF b.username = "" \/ b.password = ""
             THEN req' = [req EXCEPT ![r] =
                            [start EXCEPT !.pc = "done", !.status = 401]]
             ELSE IF findByUsername(b.username) = {}
             THEN req' = [req EXCEPT ![r] =
                            [start EXCEPT !.pc = "done", !.status = 401]]
             ELSE req' = [req EXCEPT ![r] =
                            [start EXCEPT !.pc = "checkPassword",
                               !.doc = findByUsername(b.username)]]
    /\ UNCHANGED <<users, posts, issued, now>>

\* Lines 75-87: checkPassword; 401 on a mismatch, else the serialised user
\* and the access_token cookie.
login_checkPassword(r) ==
    /\ req[r].h = "login"
    /\ req[r].pc = "checkPassword"
    /\ \E d \in req[r].doc : \E b \in req[r].body :
         IF ~checkPassword(d, b.password)
         THEN /\ req' = [req EXCEPT ![r].pc = "done", ![r].status = 401]
              /\ UNCHANGED issued
         ELSE LET token == generateToken(d, now)
              IN  /\ req' = [req EXCEPT ![r].pc = "done", ![r].status = 200,
                                        ![r].resp = {serialize(d)},
                                        ![r].cookie = {setCookie(token)}]
                  /\ issued' = issued \cup {token}
    /\ UNCHANGED <<users, posts, now>>

\* ------------------------------------------------------ check and logout
\* Lines 96-104: 401 for an anonymous request, else the identity.
check(r) ==
    /\ CanStart(r)
    /\ \E t \in Presented :
         LET user == jwtMiddleware(t, now)
             start == [Idle EXCEPT !.h = "check", !.token = t, !.user = user]
         IN  IF user = {}
             THEN req' = [req EXCEPT ![r] =
                            [start EXCEPT !.pc = "done", !.status = 401]]
             ELSE req' = [req EXCEPT ![r] =
                            [start EXCEPT !.pc = "done", !.status = 200,
                                          !.resp = user]]
    /\ UNCHANGED <<users, posts, issued, now>>

logout_revoking(r) ==
    /\ CanStart(r)
    /\ req' = [req EXCEPT ![r] =
                 [Idle EXCEPT !.h = "logout", !.pc = "done", !.status = 204,
                              !.cookie = {clearCookie}]]
    /\ issued' = {}
    /\ UNCHANGED <<users, posts, now>>

\* Lines 109-113: clear the cookie, 204.  The handler reads nothing of the
\* request.
logout(r) ==
    /\ CanStart(r)
    /\ req' = [req EXCEPT ![r] =
                 [Idle EXCEPT !.h = "logout", !.pc = "done", !.status = 204,
                              !.cookie = {clearCookie}]]
    /\ UNCHANGED <<users, posts, issued, now>>

\* ------------------------------------------------------- posts.ctrl.js
WriteBodies == {[title |-> "hello", body |-> "world", tags |-> <<"tag">>]}

\* Line 262 reads `schema` inside its own initialiser: a ReferenceError is
\* thrown before validation and before any Post is built; Koa answers 500.
write(r) ==
    /\ CanStart(r)
    /\ \E t \in Presented : \E b \in WriteBodies :
         req' = [req EXCEPT ![r] =
                   [Idle EXCEPT !.h = "write", !.pc = "done", !.token = t,
                                !.user = jwtMiddleware(t, now), !.body = {b},
                                !.status = 500,
                                !.resp = {InternalServerError}]]
    /\ UNCHANGED <<users, posts, issued, now>>

\* ctx.params.id: the id of a post written earlier (it may have been removed
\* since), or a string that is no ObjectId.
ParamIds ==
    {[valid |-> TRUE, n |-> p] : p \in PostIds} \cup {[valid |-> FALSE, n |-> 0]}

\* Post.findById
findById(n) == IF n \in PostIds THEN posts[n] ELSE {}

\* Lines 233-251, for PATCH and DELETE /api/posts/:id, after session
\* resolution: 400 on a malformed id, 404 on no post, else ctx.state.post.
getPostById(r) ==
    /\ CanStart(r)
    /\ \E h \in {"update", "remove"} : \E t \in Presented : \E id \in ParamIds :
         LET start == [Idle EXCEPT !.h = h, !.token = t, !.id = {id},
                                   !.user = jwtMiddleware(t, now)]
         IN  IF ~id.valid
             THEN req' = [req EXCEPT ![r] =
                            [start EXCEPT !.pc = "done", !.status = 400]]
             ELSE IF findById(id.n) = {}
             THEN req' = [req EXCEPT ![r] =
                            [start EXCEPT !.pc = "done", !.status = 404]]
             ELSE req' = [req EXCEPT ![r] =
                            [start EXCEPT !.pc = "checkOwnPost",
                                          !.post = findById(id.n)]]
    /\ UNCHANGED <<users, posts, issued, now>>

checkOwnPost_open(r) ==
    /\ req[r].pc = "checkOwnPost"
    /\ req' = [req EXCEPT ![r].pc = req[r].h]
    /\ UNCHANGED <<users, posts, issued, now>>

checkOwnPost_noToString(r) ==
    /\ req[r].pc = "checkOwnPost"
    /\ \E post \in req[r].post :
         IF req[r].user = {}
         THEN req' = [req EXCEPT ![r].pc = "done", ![r].status = 500,
                                 ![r].resp = {InternalServerError}]
         ELSE \E user \in req[r].user :
                IF post.user._id # user._id
                THEN req' = [req EXCEPT ![r].pc = "done", ![r].status = 403]
                ELSE req' = [req EXCEPT ![r].pc = req[r].h]
    /\ UNCHANGED <<users, posts, issued, now>>

\* Lines 390-397.  With ctx.state.user undefined, `user._id` throws a
\* TypeError and Koa answers 500.
checkOwnPost(r) ==
    /\ req[r].pc = "checkOwnPost"
    /\ \E post \in req[r].post :
         IF req[r].user = {}
         THEN req' = [req EXCEPT ![r].pc = "done", ![r].status = 500,
                                 ![r].resp = {InternalServerError}]
         ELSE \E user \in req[r].user :
                IF toString(post.user._id) # user._id
                THEN req' = [req EXCEPT ![r].pc = "done", ![r].status = 403]
                ELSE req' = [req EXCEPT ![r].pc = req[r].h]
    /\ UNCHANGED <<users, posts, issued, now>>

\* Lines 340-348: findByIdAndRemove, 204.
remove(r) ==
    /\ req[r].h = "remove"
    /\ req[r].pc = "remove"
    /\ \E id \in req[r].id :
         /\ posts' = [posts EXCEPT ![id.n] = {}]
         /\ req' = [req EXCEPT ![r].pc = "done", ![r].status = 204]
    /\ UNCHANGED <<users, issued, now>>

UpdateBodies ==
    {[title |-> "edited"],
     [body |-> "edited", tags |-> <<>>],
     [title |-> "edited", user |-> ownerRef(bob)]}

\* Joi.object().keys({title, body, tags}): every key optional, no other
\* key allowed.
UpdateSchemaOk(b) == DOMAIN b \subseteq {"title", "body", "tags"}

\* findByIdAndUpdate(id, body, {new: true}): $set of the body's fields.
findByIdAndUpdate(post, b) ==
    [f \in DOMAIN post |-> IF f \in DOMAIN b THEN b[f] ELSE post[f]]

\* Lines 358-388: 400 on a rejected body, 404 on no post, else the
\* updated post.
update(r) ==
    /\ req[r].h = "update"
    /\ req[r].pc = "update"
    /\ \E id \in req[r].id : \E b \in UpdateBodies :
         IF ~UpdateSchemaOk(b)
         THEN /\ req' = [req EXCEPT ![r].pc = "done", ![r].status = 400,
                                    ![r].body = {b},
                                    ![r].resp = {ValidationError(b)}]
              /\ UNCHANGED posts
         ELSE IF posts[id.n] = {}
         THEN /\ req' = [req EXCEPT ![r].pc = "done", ![r].status = 404,
                                    ![r].body = {b}]
              /\ UNCHANGED posts
         ELSE \E post \in posts[id.n] :
                /\ posts' = [posts EXCEPT ![id.n] = {findByIdAndUpdate(post, b)}]
                /\ req' = [req EXCEPT ![r].pc = "done", ![r].status = 200,
                                      ![r].body = {b},
                                      ![r].resp = {findByIdAndUpdate(post, b)}]
    /\ UNCHANGED <<users, issued, now>>

Tick ==
    /\ now < MaxTicks * TickStep
    /\ now' = now + TickStep
    /\ UNCHANGED <<users, posts, issued, req>>

Next ==
    \/ \E r \in Req : register(r)
    \/ \E r \in Req : register_part000_findByUsername(r)
    \/ \E r \in Req : register_part000_setPassword(r)
    \/ \E r \in Req : register_part000_save(r)
    \/ \E r \in Req : login_findByUsername(r)
    \/ \E r \in Req : login_checkPassword(r)
    \/ \E r \in Req : check(r)
    \/ \E r \in Req : logout(r)
    \/ \E r \in Req : write(r)
    \/ Tick

Spec == Init /\ [][Next]_vars

\* The posts routes, started with alice logged in at time 0.
InitPosts ==
    /\ users = {alice, bob}
    /\ posts = PostsAtStart
    /\ issued = {generateToken(alice, 0)}
    /\ now = 0
    /\ req = [r \in Req |-> Idle]

NextPosts ==
    \/ \E r \in PostReq : write(r)
    \/ \E r \in PostReq : getPostById(r)
    \/ \E r \in PostReq : checkOwnPost(r)
    \/ \E r \in PostReq : update(r)
    \/ \E r \in PostReq : remove(r)
    \/ Tick

SpecPosts == InitPosts /\ [][NextPosts]_vars

\* ================================================================ claims
Canon(id) == id[2]

Registers(r) == req[r].h \in {"register", "register_part000"}

Observable(r) == <<req[r].status, req[r].resp, req[r].cookie>>

\* C1: of the register requests for a fresh username that run findByUsername,
\* setPassword and save, interleaved in any way, exactly one succeeds and all
\* others end in 409; the store never holds two records with one username.
C1_OneSuccessPerUsername ==
    /\ \A u, v \in users : u.username = v.username => u = v
    /\ LET R == {r \in Req : /\ req[r].h = "register_part000"
                             /\ \E b \in req[r].body :
                                  RegisterSchemaOk(b) /\ b.username = "carol"}
       IN  (Cardinality(R) >= 2 /\ \A r \in R : req[r].pc = "done")
             => /\ Cardinality({r \in R : req[r].status = 200}) = 1
                /\ \A r \in R : req[r].status \in {200, 409}

\* C2: two register calls in sequence with one shape-valid username: the
\* first (no request before it) succeeds and returns that username; the
\* second (started once the first is done) ends in 409, stores nothing and
\* sets no cookie.
C2_RegisterTwiceInSequence ==
    [][/\ ( /\ req[1].pc # "done" /\ req'[1].pc = "done" /\ Registers(1)'
            /\ req[2].pc = "idle" /\ req'[2].pc = "idle"
            /\ \E b \in req'[1].body :
                 RegisterSchemaOk(b) /\ findByUsername(b.username) = {} )
          => /\ req'[1].status = 200
             /\ \E b \in req'[1].body : \E o \in req'[1].resp :
                  /\ "username" \in DOMAIN o
                  /\ o.username = b.username
       /\ ( /\ req[1].pc = "done" /\ Registers(1) /\ req[1].status = 200
            /\ req[2].pc = "idle" /\ req'[2].pc # "idle" /\ Registers(2)'
            /\ req'[2].body = req[1].body )
          => /\ req'[2].pc = "done"
             /\ req'[2].status = 409
             /\ req'[2].cookie = {}
             /\ users' = users
      ]_vars

\* C3: no response body, and no owner reference stored on a post, has a
\* hashedPassword field.
C3_NoPasswordHashExposed ==
    /\ \A r \in Req : \A o \in req[r].resp : "hashedPassword" \notin DOMAIN o
    /\ \A p \in PostIds : \A post \in posts[p] :
         "hashedPassword" \notin DOMAIN post.user

C3_Witness ==
    /\ \E r \in Req : /\ req[r].h = "login" /\ req[r].status = 200
                      /\ \E o \in req[r].resp : \E d \in req[r].doc :
                           /\ o.username = d.username
                           /\ "hashedPassword" \in DOMAIN d
    /\ \E r \in Req : /\ req[r].h = "register_part000" /\ req[r].status = 200
    /\ \E r \in Req : /\ req[r].h = "check" /\ req[r].status = 200

\* The two ways a login with both fields present fails.
LoginUnknown(r) ==
    /\ req[r].h = "login"
    /\ req[r].pc = "done"
    /\ \E b \in req[r].body :
         b.username # "" /\ b.password # "" /\ findByUsername(b.username) = {}

LoginWrongPassword(r) ==
    /\ req[r].h = "login"
    /\ req[r].pc = "done"
    /\ \E b \in req[r].body : \E d \in req[r].doc :
         d.username = b.username /\ ~bcrypt_compare(b.password, d.hashedPassword)

\* C4: a login naming no stored user and a login naming a stored user with
\* a wrong password both end with status 401, no body and no cookie, and
\* leave the user store as it was.
C4_LoginFailuresIndistinguishable ==
    [][\A r \in Req :
         (req[r].pc # "done" /\ (LoginUnknown(r)' \/ LoginWrongPassword(r)'))
           => /\ Observable(r)' = <<401, {}, {}>>
              /\ users' = users
              /\ issued' = issued
      ]_vars

C4_Witness ==
    \E r1, r2 \in Req : LoginUnknown(r1) /\ LoginWrongPassword(r2)

\* C5: a login with a stored user's name and password succeeds; its token
\* carries that user's id and name with exp = iat + 7 days, and rides in an
\* httpOnly access_token cookie whose maxAge is the same 7 days.
C5_LoginIssuesSevenDayToken ==
    \A r \in Req :
      (/\ req[r].h = "login"
       /\ req[r].pc = "done"
       /\ \/ req[r].status = 200
          \/ \E b \in req[r].body : \E d \in req[r].doc :
               d.username = b.username
               /\ bcrypt_compare(b.password, d.hashedPassword))
      => /\ req[r].status = 200
         /\ \E b \in req[r].body : \E d \in req[r].doc :
              d.username = b.username
              /\ bcrypt_compare(b.password, d.hashedPassword)
         /\ \E d \in req[r].doc : \E c \in req[r].cookie : \E t \in c.value :
              /\ d \in users
              /\ t.payload._id = <<"String", d._id[2]>>
              /\ t.payload.username = d.username
              /\ t.payload.exp = t.payload.iat + 7 * 24 * 60 * 60
              /\ c.name = "access_token"
              /\ c.httpOnly
              /\ c.maxAge = 1000 * (t.payload.exp - t.payload.iat)
              /\ t \in issued

C5_Witness ==
    \E r \in Req : /\ req[r].h = "login" /\ req[r].pc = "done"
                   /\ req[r].status = 200 /\ req[r].cookie # {}

\* A request for a stored post that checkOwnPost has handled, and whether it
\* was handed on to its handler.
PastOwnershipCheck(r) ==
    /\ req[r].h \in {"update", "remove"}
    /\ req[r].post # {}
    /\ req[r].pc # "checkOwnPost"

HandlerInvoked(r) ==
    \/ req[r].pc = req[r].h
    \/ req[r].pc = "done" /\ req[r].status \in {200, 204, 400, 404}

\* C6: for an authenticated request and a loaded post, the ownership check
\* ends in 403 without reaching the handler when the two ids differ, and
\* passes the request on to the handler when they are the same id,
\* whichever of them is an ObjectId and whichever a string.
C6_OwnershipCheckDecides ==
    \A r \in Req : \A user \in req[r].user : \A post \in req[r].post :
      PastOwnershipCheck(r)
        => IF Canon(user._id) = Canon(post.user._id)
           THEN HandlerInvoked(r)
           ELSE req[r].pc = "done" /\ req[r].status = 403 /\ req[r].resp = {}

C6_Witness ==
    /\ \E r \in Req : /\ PastOwnershipCheck(r) /\ req[r].status = 403
                      /\ req[r].user # {}
    /\ \E r \in Req : /\ PastOwnershipCheck(r) /\ req[r].pc = req[r].h
                      /\ \E user \in req[r].user : \E post \in req[r].post :
                           user._id # post.user._id

\* C7: a request without a token that reaches the ownership check on a
\* stored post ends in 403.
C7_AnonymousIsForbidden ==
    \A r \in Req :
      (PastOwnershipCheck(r) /\ req[r].token = {})
        => req[r].pc = "done" /\ req[r].status = 403

\* C8: logout answers 204, clears the access_token cookie and changes
\* neither the stores nor the issued tokens; a request that carries an
\* issued token before its expiry resolves to that token's identity,
\* whether or not a logout came before.
C8_LogoutKeepsTokensValid ==
    [][\A r \in Req :
         /\ (req[r].pc = "idle" /\ req'[r].h = "logout")
              => /\ req'[r].status = 204
                 /\ req'[r].resp = {}
                 /\ \E c \in req'[r].cookie :
                      c.name = "access_token" /\ c.value = {}
                 /\ users' = users
                 /\ posts' = posts
                 /\ issued' = issued
         /\ (req[r].pc = "idle" /\ req'[r].pc # "idle")
              => \A t \in req'[r].token :
                   /\ t \in issued
                   /\ now < t.payload.exp
                        => req'[r].user = {[_id |-> t.payload._id,
                                            username |-> t.payload.username]}
      ]_vars

C8_Witness ==
    \E r1, r2, r3 \in Req :
      /\ r1 < r2 /\ r2 < r3
      /\ req[r1].h = "login" /\ req[r1].status = 200
      /\ req[r2].h = "logout" /\ req[r2].pc = "done"
      /\ req[r3].h = "check" /\ req[r3].status = 200
      /\ \E c \in req[r1].cookie : req[r3].token = c.value
      /\ req[r3].resp = {serialize([_id |-> <<"String", 1>>,
                                    username |-> "alice"])}

\* C9: a stored post changes or disappears only in the final step of an
\* update or remove request for that post whose resolved identity is the
\* post's owner.
C9_OnlyOwnerMutates ==
    [][\A p \in PostIds :
         posts'[p] # posts[p]
           => \E r \in Req :
                /\ req[r].pc \in {"update", "remove"}
                /\ req'[r].pc = "done"
                /\ \E id \in req[r].id : id.n = p
                /\ \E user \in req[r].user : \A post \in posts[p] :
                     Canon(user._id) = Canon(post.user._id)
      ]_vars

C9_Witness ==
    /\ \E p \in PostIds : posts[p] # PostsAtStart[p]
    /\ \E r \in Req : /\ req[r].h \in {"update", "remove"}
                      /\ req[r].status \in {200, 204}
    /\ \E r \in Req : req[r].status \in {403, 500} /\ req[r].post # {}

\* C10: write stores the post with the request's identity as its owner, and
\* an update either answers 400 and changes nothing or leaves the owner
\* reference as it was.
C10_OwnerSetOnceByWrite ==
    [][\A r \in Req :
         /\ (req[r].pc = "idle" /\ req'[r].h = "write" /\ req'[r].user # {})
              => /\ req'[r].status = 200
                 /\ \E o \in req'[r].resp :
                      "user" \in DOMAIN o /\ {o.user} = req'[r].user
         /\ (req[r].pc = "update" /\ req'[r].pc = "done")
              => \/ req'[r].status = 400 /\ posts' = posts
                 \/ \A p \in PostIds :
                      \A old \in posts[p] : \A new \in posts'[p] :
                        new.user = old.user /\ new._id = old._id
      ]_vars

\* Supporting property: an update changes nothing but title, body and tags
\* of a stored post, and nothing at all when it answers 400.
UpdateLeavesOwner ==
    [][\A r \in Req :
         (req[r].pc = "update" /\ req'[r].pc = "done")
           => \/ req'[r].status = 400 /\ posts' = posts
              \/ /\ req'[r].status # 400
                 /\ \A p \in PostIds :
                      \A old \in posts[p] : \A new \in posts'[p] :
                        \A f \in DOMAIN old \ {"title", "body", "tags"} :
                          new[f] = old[f]
      ]_vars

====
